---- MODULE Spec2Model ----
(***************************************************************************)
(* Model of mplkorfball: the pitch dimension factory (dimensions.py), the  *)
(* pitch-layer constructor that validates its arguments and calls the      *)
(* factory (_pitch_base.py), and the 2D binning engine (heatmap.py).       *)
(*                                                                         *)
(* Numbers.  Python floats are modelled as exact fixed-point integers in   *)
(* units of 1/600 m (Scale units per metre), so that every division the    *)
(* code performs on the enumerated inputs (/2, /6, linspace over the bin   *)
(* counts) is exact.  An attribute is an "optional value": a record        *)
(* [k, v] with k = "num" (v is the number), k = "None" (Python None) or    *)
(* k = "TypeError" (the expression that computes it raises TypeError,      *)
(* because an operand is None).                                            *)
(***************************************************************************)
EXTENDS Integers, Sequences, FiniteSets, TLC

Scale == 6 * 100            \* model units per metre
Cm(c) == c * 6              \* centimetres -> model units

Num(n) == [k |-> "num", v |-> n]
None == [k |-> "None", v |-> 0]
TypeErr == [k |-> "TypeError", v |-> 0]
IsNum(a) == a.k = "num"
IsNone(a) == a.k = "None"

\* Python arithmetic on optional values: an operand that is None (or whose
\* own evaluation already raised) makes the expression raise TypeError.
Add(a, b) == IF IsNum(a) /\ IsNum(b) THEN Num(a.v + b.v) ELSE TypeErr
Sub(a, b) == IF IsNum(a) /\ IsNum(b) THEN Num(a.v - b.v) ELSE TypeErr
DivBy(a, n) == IF IsNum(a) THEN Num(a.v \div n) ELSE TypeErr
Lt(a, b) == IsNum(a) /\ IsNum(b) /\ a.v < b.v

(***************************************************************************)
(* Bounds of the enumerated inputs.                                        *)
(***************************************************************************)
MaxSize == 4        \* pitch_width / pitch_length range over -Step .. MaxSize*Step
MaxPoints == 2      \* number of points given to bin_statistic

Step == 10 * Scale  \* 10 m
SmallSize == 4 * Scale  \* 4 m: less than twice the 2.5 m penalty radius
Sizes == {None, Num(SmallSize)} \cup {Num(s * Step) : s \in -1..MaxSize}
PostDistances == {None, Num(Cm(500)), Num(Cm(667))}
PitchTypes == {"ikf", "custom", "netball", "fullsize", "bogus"}

(***************************************************************************)
(* dimensions.py                                                           *)
(***************************************************************************)
valid == {"ikf", "custom"}
size_varies == {"custom"}

\* The fields of KorfballBaseDims whose value is a single optional number.
ScalarFields ==
    {"pitch_width", "pitch_length", "korf_offset", "korf_width", "korf_length",
     "twofifty_width", "twofifty_length", "arc",
     "left", "right", "bottom", "top", "aspect", "width", "length",
     "post_distance", "post_left", "post_right", "korf_left", "korf_right",
     "penalty_left", "penalty_right", "penalty_area_top", "penalty_area_bottom",
     "penalty_area_left", "penalty_area_right", "freepass_left", "freepass_right",
     "center_width", "center_length"}
ArrayFields == {"x_markings_sorted", "y_markings_sorted", "pitch_extent"}

\* A freshly constructed KorfballBaseDims before __post_init__: every
\* derivable field holds its dataclass default, None.
KorfballBaseDims ==
    [cls |-> "KorfballBaseDims", invert_y |-> FALSE, origin_center |-> FALSE,
     pitch_width |-> None, pitch_length |-> None, korf_offset |-> None,
     korf_width |-> None, korf_length |-> None, twofifty_width |-> None,
     twofifty_length |-> None, arc |-> None,
     left |-> None, right |-> None, bottom |-> None, top |-> None,
     aspect |-> None, width |-> None, length |-> None, post_distance |-> None,
     post_left |-> None, post_right |-> None, korf_left |-> None,
     korf_right |-> None, penalty_left |-> None, penalty_right |-> None,
     penalty_area_top |-> None, penalty_area_bottom |-> None,
     penalty_area_left |-> None, penalty_area_right |-> None,
     freepass_left |-> None, freepass_right |-> None,
     center_width |-> None, center_length |-> None,
     x_markings_sorted |-> <<>>, y_markings_sorted |-> <<>>,
     pitch_extent |-> <<>>]

\* np.sort of a 1-D array: ascending; an array holding None cannot be
\* ordered and the sort raises TypeError.
RECURSIVE InsertSorted(_, _)
InsertSorted(s, a) ==
    IF s = <<>> THEN <<a>>
    ELSE IF a.v <= Head(s).v THEN <<a>> \o s
    ELSE <<Head(s)>> \o InsertSorted(Tail(s), a)
RECURSIVE np_sort(_)
np_sort(s) ==
    IF \E i \in 1..Len(s) : ~IsNum(s[i]) THEN [i \in 1..Len(s) |-> TypeErr]
    ELSE IF s = <<>> THEN <<>>
    ELSE InsertSorted(np_sort(Tail(s)), Head(s))

\* KorfballBaseDims.pitch_markings (called by setup_dims).
pitch_markings(d) ==
    LET ys == <<d.bottom, d.penalty_area_bottom, d.center_width,
                d.penalty_area_top, d.top>>
    IN [d EXCEPT
          !.x_markings_sorted =
              <<d.left, d.penalty_area_left, d.post_left, d.penalty_left,
                d.freepass_left, d.center_length, d.freepass_right,
                d.penalty_right, d.post_right, d.penalty_area_right, d.right>>,
          !.y_markings_sorted = IF d.invert_y THEN np_sort(ys) ELSE ys,
          !.pitch_extent = IF d.invert_y
                           THEN <<d.left, d.right, d.top, d.bottom>>
                           ELSE <<d.left, d.right, d.bottom, d.top>>]

setup_dims(d) == pitch_markings(d)

\* penalty_area_dims with the two y offsets exchanged.
penalty_area_dims_offsets_swapped(d) ==
    LET tw == IF d.invert_y THEN Sub(Num(0), d.twofifty_width)
              ELSE d.twofifty_width
    IN [d EXCEPT !.penalty_right = Sub(d.right, d.penalty_left),
                 !.penalty_area_bottom = Add(d.center_width, tw),
                 !.penalty_area_top = Sub(d.center_width, tw)]

\* KorfballBaseDims.penalty_area_dims.
penalty_area_dims(d) ==
    LET tw == IF d.invert_y THEN Sub(Num(0), d.twofifty_width)
              ELSE d.twofifty_width
    IN [d EXCEPT !.penalty_right = Sub(d.right, d.penalty_left),
                 !.penalty_area_bottom = Sub(d.center_width, tw),
                 !.penalty_area_top = Add(d.center_width, tw)]

\* The outcome of a constructor call: the object, or the TypeError raised
\* by the first expression of __post_init__ that operates on None.
NoDim == [cls |-> "NoDim"]
Raises(d) ==
    \/ \E f \in ScalarFields : d[f].k = "TypeError"
    \/ \E f \in ArrayFields : \E i \in 1..Len(d[f]) : d[f][i].k = "TypeError"
Construct(d) ==
    IF Raises(d) THEN [status |-> "TypeError", dim |-> NoDim]
    ELSE [status |-> "ok", dim |-> d]

\* FixedDimsKorfball.__post_init__
FixedDimsKorfball(d) == setup_dims([d EXCEPT !.cls = "FixedDimsKorfball"])

\* CustomDimsKorfball.__post_init__ with the two centres taken from the
\* wrong side lengths.
CustomDimsKorfball_centres_exchanged(d0, post_distance) ==
    LET d1 == [d0 EXCEPT !.cls = "CustomDimsKorfball",
                         !.right = d0.pitch_length,
                         !.top = d0.pitch_width,
                         !.post_left = Add(d0.left, post_distance)]
        d2 == [d1 EXCEPT !.post_right = Sub(d1.right, d1.post_left),
                         !.center_width = DivBy(d1.pitch_length, 2),
                         !.center_length = DivBy(d1.pitch_width, 2),
                         !.korf_left = Add(Add(d1.post_left, d1.korf_offset),
                                           DivBy(d1.korf_length, 2))]
        d3 == [d2 EXCEPT !.korf_right = Sub(d2.right, d2.korf_left),
                         !.penalty_left = Add(d2.post_left, d2.twofifty_length)]
    IN setup_dims(penalty_area_dims(d3))

\* CustomDimsKorfball.__post_init__(post_distance).  post_distance is an
\* InitVar: it is not stored, the attribute keeps the class default None.
CustomDimsKorfball(d0, post_distance) ==
    LET d1 == [d0 EXCEPT !.cls = "CustomDimsKorfball",
                         !.right = d0.pitch_length,
                         !.top = d0.pitch_width,
                         !.post_left = Add(d0.left, post_distance)]
        d2 == [d1 EXCEPT !.post_right = Sub(d1.right, d1.post_left),
                         !.center_width = DivBy(d1.pitch_width, 2),
                         !.center_length = DivBy(d1.pitch_length, 2),
                         !.korf_left = Add(Add(d1.post_left, d1.korf_offset),
                                           DivBy(d1.korf_length, 2))]
        d3 == [d2 EXCEPT !.korf_right = Sub(d2.right, d2.korf_left),
                         !.penalty_left = Add(d2.post_left, d2.twofifty_length)]
    IN setup_dims(penalty_area_dims(d3))

\* VariableCenterDimsKorfball.__post_init__(post_distance): the variant with
\* the origin at the centre of the pitch.
VariableCenterDimsKorfball(d0, post_distance) ==
    LET Neg(a) == Sub(Num(0), a)
        d1 == [d0 EXCEPT !.cls = "VariableCenterDimsKorfball",
                         !.left = Neg(DivBy(d0.pitch_length, 2)),
                         !.bottom = Neg(DivBy(d0.pitch_width, 2)),
                         !.width = d0.pitch_width,
                         !.length = d0.pitch_length]
        d2 == [d1 EXCEPT !.right = Neg(d1.left),
                         !.top = Neg(d1.bottom),
                         !.post_left = Add(d1.left, post_distance)]
        d3 == [d2 EXCEPT !.post_right = Neg(d2.post_left),
                         !.korf_left = Add(Add(d2.post_left, d2.korf_offset),
                                           DivBy(d2.korf_length, 2)),
                         !.penalty_left = Add(d2.post_left, d2.twofifty_length),
                         !.penalty_area_left = Sub(d2.post_left, d2.twofifty_length)]
        d4 == [d3 EXCEPT !.korf_right = Neg(d3.korf_left),
                         !.penalty_right = Neg(d3.penalty_left),
                         !.penalty_area_right = Neg(d3.penalty_area_left),
                         !.freepass_left = Add(d3.penalty_left, d3.twofifty_length)]
    IN setup_dims([d4 EXCEPT !.freepass_right = Neg(d4.freepass_left)])

ikf_dims ==
    Construct(FixedDimsKorfball(
      [KorfballBaseDims EXCEPT
         !.pitch_width = Num(Cm(2000)), !.pitch_length = Num(Cm(4000)),
         !.korf_offset = Num(Cm(4)), !.korf_width = Num(Cm(40)),
         !.korf_length = Num(Cm(40)),
         !.twofifty_width = Num(Cm(250)), !.twofifty_length = Num(Cm(250)),
         !.arc = Num(90),
         !.left = Num(0), !.right = Num(Cm(4000)),
         !.bottom = Num(0), !.top = Num(Cm(2000)), !.aspect = Num(Scale),
         !.width = Num(Cm(2000)), !.length = Num(Cm(4000)),
         !.post_distance = Num(Cm(667)),
         !.post_left = Num(Cm(667)), !.post_right = Num(Cm(3333)),
         !.korf_left = Num(Cm(690)), !.korf_right = Num(Cm(3350)),
         !.penalty_left = Num(Cm(917)), !.penalty_right = Num(Cm(3083)),
         !.penalty_area_top = Num(Cm(1250)), !.penalty_area_bottom = Num(Cm(750)),
         !.penalty_area_left = Num(Cm(417)), !.penalty_area_right = Num(Cm(1583)),
         !.freepass_left = Num(Cm(1167)), !.freepass_right = Num(Cm(2833)),
         !.center_width = Num(Cm(1000)), !.center_length = Num(Cm(2000))]))

\* custom_dims with aspect computed as width / length.
custom_dims_aspect_from_sizes(pitch_width, pitch_length, post_distance) ==
    Construct(CustomDimsKorfball(
      [KorfballBaseDims EXCEPT
         !.bottom = Num(0), !.left = Num(0),
         !.aspect = IF IsNum(pitch_width) /\ IsNum(pitch_length) /\ pitch_length.v # 0
                    THEN Num((pitch_width.v * Scale) \div pitch_length.v)
                    ELSE TypeErr,
         !.width = pitch_width, !.length = pitch_length,
         !.pitch_width = pitch_width, !.pitch_length = pitch_length,
         !.twofifty_width = Num(Cm(250)), !.twofifty_length = Num(Cm(250)),
         !.korf_offset = Num(Cm(12)), !.korf_width = Num(Cm(40)),
         !.korf_length = Num(Cm(40)), !.arc = Num(90)],
      post_distance))

custom_dims(pitch_width, pitch_length, post_distance) ==
    Construct(CustomDimsKorfball(
      [KorfballBaseDims EXCEPT
         !.bottom = Num(0), !.left = Num(0), !.aspect = Num(Scale),
         !.width = pitch_width, !.length = pitch_length,
         !.pitch_width = pitch_width, !.pitch_length = pitch_length,
         !.twofifty_width = Num(Cm(250)), !.twofifty_length = Num(Cm(250)),
         !.korf_offset = Num(Cm(12)), !.korf_width = Num(Cm(40)),
         !.korf_length = Num(Cm(40)), !.arc = Num(90)],
      post_distance))

\* netball_dims() -> FixedDimsNetball.__post_init__: left and right keep
\* their default None, so third_left = self.left + self.third_length raises.
netball_dims ==
    LET left == None
        third_length == Num(Cm(1016) + 4)     \* 10.167 m
        third_left == Add(left, third_length)
    IN IF third_left.k = "TypeError"
       THEN [status |-> "TypeError", dim |-> NoDim]
       ELSE [status |-> "ok", dim |-> [cls |-> "FixedDimsNetball"]]

\* Variants of create_pitch_dims with a plausible slip: the fixed-size type
\* honouring supplied sizes; a default post distance of pitch_length / 5.
create_pitch_dims_ikf_uses_sizes(pitch_type, pitch_width, pitch_length, post_distance) ==
    IF pitch_type = "netball" THEN netball_dims
    ELSE IF pitch_type = "ikf" /\ IsNone(pitch_width) /\ IsNone(pitch_length)
    THEN ikf_dims
    ELSE custom_dims(pitch_width, pitch_length,
                     IF IsNone(post_distance) THEN DivBy(pitch_length, 6)
                     ELSE post_distance)
create_pitch_dims_default_fifth(pitch_type, pitch_width, pitch_length, post_distance) ==
    IF pitch_type = "netball" THEN netball_dims
    ELSE IF pitch_type = "ikf" THEN ikf_dims
    ELSE IF pitch_type = "custom" THEN
        custom_dims(pitch_width, pitch_length,
                    IF IsNone(post_distance) THEN DivBy(pitch_length, 5)
                    ELSE post_distance)
    ELSE custom_dims(pitch_width, pitch_length, post_distance)

create_pitch_dims(pitch_type, pitch_width, pitch_length, post_distance) ==
    IF pitch_type = "netball" THEN netball_dims
    ELSE IF pitch_type = "ikf" THEN ikf_dims
    ELSE IF pitch_type = "custom" THEN
        custom_dims(pitch_width, pitch_length,
                    IF IsNone(post_distance) THEN DivBy(pitch_length, 6)
                    ELSE post_distance)
    ELSE custom_dims(pitch_width, pitch_length, post_distance)

(***************************************************************************)
(* _pitch_base.py: BasePitch.__init__ and the checks it runs.  The         *)
(* Standardizer (mplkorfball.utils) and the abstract _set_extent and       *)
(* _scale_pad hooks are defined outside these sources; they contribute no  *)
(* modelled state.  _scale_pad is only called when dim.aspect != 1.        *)
(***************************************************************************)
WarnSizeIgnored == "Pitch length and widths are only used for ['custom'] pitches and will be ignored"
WarnLabels == "Labels will not be shown unless axis=True"
WarnTicks == "Ticks will not be shown unless axis=True"

\* A variant of _validation_checks that lacks the check that a size-varying
\* pitch type comes with both sizes.
validation_checks_no_size_check(self) ==
    IF self.pitch_type \notin valid
    THEN [status |-> "TypeError", warnings |-> <<>>]
    ELSE [status |-> "ok",
          warnings |-> IF self.pitch_type \notin size_varies
                          /\ (~IsNone(self.pitch_length) \/ ~IsNone(self.pitch_width))
                       THEN <<WarnSizeIgnored>> ELSE <<>>]

\* BasePitch._validation_checks: the exception it raises (or "ok") and the
\* warnings it has emitted by then.
validation_checks(self) ==
    IF self.pitch_type \notin valid
    THEN [status |-> "TypeError", warnings |-> <<>>]
    ELSE IF (IsNone(self.pitch_length) \/ IsNone(self.pitch_width))
            /\ self.pitch_type \in size_varies
    THEN [status |-> "TypeError", warnings |-> <<>>]
    ELSE LET w1 == IF self.pitch_type \notin size_varies
                      /\ (~IsNone(self.pitch_length) \/ ~IsNone(self.pitch_width))
                   THEN <<WarnSizeIgnored>> ELSE <<>>
         IN IF \E a \in {"axis", "tick", "label", "half"} : self[a] \notin BOOLEAN
            THEN [status |-> "TypeError", warnings |-> w1]
            ELSE [status |-> "ok",
                  warnings |-> w1
                     \o (IF self.axis = FALSE /\ self.label THEN <<WarnLabels>> ELSE <<>>)
                     \o (IF self.axis = FALSE /\ self.tick THEN <<WarnTicks>> ELSE <<>>)]

Min0(a) == IF a.v < 0 THEN a.v ELSE 0
Abs(n) == IF n < 0 THEN -n ELSE n

\* BasePitch._validate_pad
validate_pad(self) ==
    IF Abs(Min0(self.pad_left) + Min0(self.pad_right)) >= self.dim.length.v
    THEN "ValueError"
    ELSE IF Abs(Min0(self.pad_top) + Min0(self.pad_bottom)) >= self.dim.width.v
    THEN "ValueError"
    ELSE IF self.half
            /\ 2 * Abs(Min0(self.pad_left) + Min0(self.pad_right)) >= self.dim.length.v
    THEN "ValueError"
    ELSE "ok"

\* BasePitch._init_circles_and_arcs: the attributes are assigned in order
\* until an attribute the Dimension Model does not have is read.
init_circles_and_arcs(self) ==
    LET s1 == [self EXCEPT
                 !.diameter1 = Num(self.dim.twofifty_length.v * 2),
                 !.diameter2 = Num(self.dim.twofifty_width.v * 2),
                 \* spot_scale (0.002) * length * 2
                 !.diameter_spot1 = Num((self.dim.length.v * 4) \div 1000),
                 !.diameter_spot2 = Num((self.dim.length.v * 4) \div 1000)]
    IN IF "corner_diameter" \notin DOMAIN self.dim
       THEN [s1 EXCEPT !.status = "AttributeError", !.stage = "circles"]
       ELSE [s1 EXCEPT !.arc1_theta1 = self.dim.arc,
                       !.arc1_theta2 = Num(-self.dim.arc.v),
                       !.arc2_theta1 = Num(180 + self.dim.arc.v),
                       !.arc2_theta2 = Num(180 - self.dim.arc.v),
                       !.status = "ok", !.stage = "done"]

DefaultPad(p) == IF IsNone(p) THEN Num(4 * Scale) ELSE p

\* BasePitch.__init__: status is "ok" or the exception that ends the
\* constructor, stage the step that raised it.
BasePitch(pitch_type, half, pad_left, pitch_length, pitch_width, label) ==
    LET self0 == [pitch_type |-> pitch_type, half |-> half,
                  pad_left |-> pad_left, pad_right |-> None,
                  pad_bottom |-> None, pad_top |-> None,
                  pitch_length |-> pitch_length, pitch_width |-> pitch_width,
                  axis |-> FALSE, label |-> label, tick |-> FALSE,
                  diameter1 |-> None, diameter2 |-> None,
                  diameter_spot1 |-> None, diameter_spot2 |-> None,
                  arc1_theta1 |-> None, arc1_theta2 |-> None,
                  arc2_theta1 |-> None, arc2_theta2 |-> None,
                  dim |-> NoDim, warnings |-> <<>>,
                  status |-> "ok", stage |-> "attributes"]
        chk == validation_checks(self0)
        self1 == [self0 EXCEPT !.warnings = chk.warnings]
        made == create_pitch_dims(pitch_type, pitch_width, pitch_length, None)
        self2 == [self1 EXCEPT !.dim = made.dim,
                               !.pad_left = DefaultPad(self1.pad_left),
                               !.pad_right = DefaultPad(self1.pad_right),
                               !.pad_bottom = DefaultPad(self1.pad_bottom),
                               !.pad_top = DefaultPad(self1.pad_top)]
    IN IF chk.status # "ok"
       THEN [self1 EXCEPT !.status = chk.status, !.stage = "validation"]
       ELSE IF made.status # "ok"
       THEN [self1 EXCEPT !.status = made.status, !.stage = "dims"]
       ELSE IF validate_pad(self2) # "ok"
       THEN [self2 EXCEPT !.status = validate_pad(self2), !.stage = "validate_pad"]
       ELSE IF self2.dim.aspect = Num(Scale)
       THEN init_circles_and_arcs(self2)
       ELSE [self2 EXCEPT !.stage = "done"]

(***************************************************************************)
(* heatmap.py: bin_statistic, with scipy.stats.binned_statistic_2d         *)
(* modelled by what it computes for range=..., expand_binnumbers=True.     *)
(* A cell of the statistic grid is the fraction n/d as the record [n, d];  *)
(* d = 0 is a non-finite cell (n = 0: NaN, otherwise +-inf).               *)
(***************************************************************************)
Cell(n, d) == [n |-> n, d |-> d]
NaN == Cell(0, 0)

RECURSIVE SumSeq(_)
SumSeq(s) == IF s = <<>> THEN 0 ELSE Head(s) + SumSeq(Tail(s))

\* np.linspace(lo, hi, n + 1): the n + 1 edges of n equal bins.
linspace(lo, hi, n) == [i \in 1..(n + 1) |-> lo + ((i - 1) * (hi - lo)) \div n]

\* digitize without moving a point on the last edge into the last bin.
digitize_no_edge_shift(e, v) == Cardinality({i \in 1..Len(e) : e[i] <= v})
\* The bin of one coordinate over edges e: np.digitize (searchsorted, side
\* 'right') gives 0 below the first edge, k in bin k, Len(e) at or above the
\* last edge; a point on the last edge is then moved into the last bin.
digitize(e, v) ==
    LET k == Cardinality({i \in 1..Len(e) : e[i] <= v})
    IN IF v = e[Len(e)] THEN k - 1 ELSE k

\* reduce with 'count' adding up the values in the bin.
reduce_count_adds_values(statistic, vs) ==
    IF statistic \in {"count", "sum"} THEN Cell(SumSeq(vs), 1)
    ELSE IF vs = <<>> THEN NaN
    ELSE Cell(SumSeq(vs), Len(vs))
\* The reduction of the values that fall in one bin (vs: their sequence).
\* 'count' counts them; the named statistics are the nan-aware numpy
\* reductions, which give 0 (nansum) or NaN (nanmean) on an empty bin.
reduce(statistic, vs) ==
    IF statistic = "count" THEN Cell(Len(vs), 1)
    ELSE IF statistic = "sum" THEN Cell(SumSeq(vs), 1)
    ELSE IF vs = <<>> THEN NaN
    ELSE Cell(SumSeq(vs), Len(vs))              \* 'mean'

RECURSIVE SelectIdx(_, _, _)
\* The values v[i], in order, of the indices i >= from that satisfy keep[i].
SelectIdx(v, keep, from) ==
    IF from > Len(v) THEN <<>>
    ELSE (IF keep[from] THEN <<v[from]>> ELSE <<>>) \o SelectIdx(v, keep, from + 1)

\* The first n elements of f as an array held element by element.
RECURSIVE AsArray(_, _)
AsArray(f, n) == IF n = 0 THEN <<>> ELSE Append(AsArray(f, n - 1), f[n])

\* The result of the histogram from the edges and the per-axis 1-based bin
\* numbers bx and by of the points.
binned_by_number(values, statistic, bins, x_edge, y_edge, bx, by) ==
    [status |-> "ok",
     statistic |->
        [c \in 1..bins[1] |-> [r \in 1..bins[2] |->
            reduce(statistic,
                   SelectIdx(values,
                             [i \in 1..Len(bx) |-> bx[i] = c /\ by[i] = r], 1))]],
     x_edge |-> x_edge, y_edge |-> y_edge,
     binnumber |-> <<bx, by>>]

\* The histogram over the edges: each point's pair of bin numbers is found
\* once, then the points of each bin are reduced.
binned(x, y, values, statistic, bins, x_edge, y_edge) ==
    binned_by_number(values, statistic, bins, x_edge, y_edge,
                     AsArray([i \in 1..Len(x) |-> digitize(x_edge, x[i])], Len(x)),
                     AsArray([i \in 1..Len(y) |-> digitize(y_edge, y[i])], Len(y)))

\* scipy.stats.binned_statistic_2d(x, y, values, statistic, bins, range,
\* expand_binnumbers=True): status "ValueError" when x, y and values differ
\* in length or a range is reversed,
\* otherwise statistic[xbin][ybin] over the core bins, the edges, and the
\* per-axis 1-based bin numbers (0 and num_bins + 1 mark out-of-range).
binned_statistic_2d(x, y, values, statistic, bins, range) ==
    LET \* a range of zero width is widened by 0.5 on both sides
        xlo == IF range[1][1] = range[1][2] THEN range[1][1] - Scale \div 2 ELSE range[1][1]
        xhi == IF range[1][1] = range[1][2] THEN range[1][2] + Scale \div 2 ELSE range[1][2]
        ylo == IF range[2][1] = range[2][2] THEN range[2][1] - Scale \div 2 ELSE range[2][1]
        yhi == IF range[2][1] = range[2][2] THEN range[2][2] + Scale \div 2 ELSE range[2][2]
    IN IF Len(x) # Len(y) \/ Len(values) # Len(x) \/ range[1][2] < range[1][1] \/ range[2][2] < range[2][1]
       THEN [status |-> "ValueError", statistic |-> <<>>, x_edge |-> <<>>,
             y_edge |-> <<>>, binnumber |-> <<>>]
       ELSE binned(x, y, values, statistic, bins,
                   AsArray(linspace(xlo, xhi, bins[1]), bins[1] + 1),
                   AsArray(linspace(ylo, yhi, bins[2]), bins[2] + 1))

\* The transposition left out.
Transpose_left_out(m) == m
\* statistic.T
Transpose(m) == [r \in 1..Len(m[1]) |-> [c \in 1..Len(m) |-> m[c][r]]]
\* The flip left out.
Flip_left_out(m) == m
\* np.flip(a, axis=0)
Flip(m) == [r \in 1..Len(m) |-> m[Len(m) + 1 - r]]

\* statistic / statistic.sum() on cells n/d.  Any non-finite cell makes the
\* sum, hence every quotient, NaN; a zero sum gives NaN for a zero cell and
\* an infinity for a non-zero one.
RECURSIVE ProdDen(_)
ProdDen(cells) == IF cells = <<>> THEN 1 ELSE Head(cells).d * ProdDen(Tail(cells))
RECURSIVE Flatten(_)
Flatten(m) == IF m = <<>> THEN <<>> ELSE Head(m) \o Flatten(Tail(m))
\* Normalize with the division left out.
Normalize_not_divided(m) == m
Normalize(m) ==
    LET cells == Flatten(m)
        D == ProdDen(cells)
        T == SumSeq([i \in 1..Len(cells) |-> cells[i].n * (D \div cells[i].d)])
    IN IF \E i \in 1..Len(cells) : cells[i].d = 0
       THEN [r \in 1..Len(m) |-> [c \in 1..Len(m[r]) |-> NaN]]
       ELSE [r \in 1..Len(m) |-> [c \in 1..Len(m[r]) |->
               IF T = 0
               THEN Cell(IF m[r][c].n > 0 THEN 1 ELSE IF m[r][c].n < 0 THEN -1 ELSE 0, 0)
               ELSE Cell(m[r][c].n * D, m[r][c].d * T)]]

\* np.meshgrid(xs, ys): Len(ys) rows and Len(xs) columns.
meshgrid_x(xs, ys) == [r \in 1..Len(ys) |-> xs]
meshgrid_y(xs, ys) == [r \in 1..Len(ys) |-> [c \in 1..Len(xs) |-> ys[r]]]
\* edge[:-1] + 0.5 * np.diff(edge)
centers(e) == [i \in 1..(Len(e) - 1) |-> e[i] + (e[i + 1] - e[i]) \div 2]

NoStats == [status |-> "none"]

\* binnumber[1, :] = num_y - binnumber[1, :] + 1
flip_binnumber_no_plus_one(num_y, b) == num_y - b
flip_binnumber(num_y, b) == num_y - b + 1
BinRaise(exc, line) == [status |-> exc, line |-> line]

\* Recode one row of binnumber: the out-of-range marks become -1, the others
\* zero-based.
\* Recode with only the low sentinel mapped to -1.
Recode_low_sentinel_only(row, num) ==
    [i \in 1..Len(row) |-> IF row[i] = 0 THEN -1 ELSE row[i] - 1]
Recode(row, num) ==
    [i \in 1..Len(row) |-> IF row[i] = 0 \/ row[i] = num + 1 THEN -1 ELSE row[i] - 1]

\* The size check left out.
size_mismatch_unchecked(x, y) == FALSE

\* x.size != y.size
size_mismatch(x, y) == Len(x) # Len(y)

\* The missing-values check left out.
values_missing_unchecked(values, statistic) == FALSE

\* (values is None) & (statistic != 'count')
values_missing(values, statistic) == ~values.given /\ statistic # "count"

\* inside taken from the x mask alone.
inside_mask_x_only(mask_x_out, mask_y_out) ==
    [i \in 1..Len(mask_x_out) |-> ~mask_x_out[i]]

\* inside = np.logical_and(~mask_x_out, ~mask_y_out)
inside_mask(mask_x_out, mask_y_out) ==
    [i \in 1..Len(mask_x_out) |-> ~mask_x_out[i] /\ ~mask_y_out[i]]

\* The grid flip decided on dim.invert_y alone.
flip_grids_ignores_standardized(dim, standardized) == ~dim.invert_y

\* The grid flip left out.
flip_grids_left_out(dim, standardized) == FALSE

\* not dim.invert_y or standardized is not False
flip_grids(dim, standardized) == ~dim.invert_y \/ standardized # FALSE

\* The part of bin_statistic after the histogram step: b is what
\* binned_statistic_2d returned, flipped is np.flip(statistic.T, axis=0).
bin_statistic_finish(dim, normalize, standardized, b, flipped, num_x, num_y, by1) ==
    LET N == Len(by1)
        cxs == centers(b.x_edge)
        cys == centers(b.y_edge)
        flipgrid == flip_grids(dim, standardized)
        mask_x_out == [i \in 1..N |->
                         b.binnumber[1][i] = 0 \/ b.binnumber[1][i] = num_x + 1]
        mask_y_out == [i \in 1..N |-> by1[i] = 0 \/ by1[i] = num_y + 1]
    IN [status |-> "ok",
        statistic |-> IF normalize THEN Normalize(flipped) ELSE flipped,
        x_grid |-> meshgrid_x(b.x_edge, b.y_edge),
        y_grid |-> IF flipgrid THEN Flip(meshgrid_y(b.x_edge, b.y_edge))
                   ELSE meshgrid_y(b.x_edge, b.y_edge),
        cx |-> meshgrid_x(cxs, cys),
        cy |-> IF flipgrid THEN Flip(meshgrid_y(cxs, cys))
               ELSE meshgrid_y(cxs, cys),
        binnumber |-> <<Recode(b.binnumber[1], num_x), Recode(by1, num_y)>>,
        inside |-> inside_mask(mask_x_out, mask_y_out)]

\* The part of bin_statistic from the histogram step on.
bin_statistic_post(dim, normalize, standardized, b) ==
    IF b.status # "ok" THEN BinRaise(b.status, 103)
    ELSE IF dim = NoDim THEN BinRaise("AttributeError", 118)
    ELSE LET flipped == Flip(Transpose(b.statistic))
             num_y == Len(flipped)
             num_x == Len(flipped[1])
         IN bin_statistic_finish(dim, normalize, standardized, b, flipped,
                num_x, num_y,
                [i \in 1..Len(b.binnumber[2]) |->
                    flip_binnumber(num_y, b.binnumber[2][i])])

\* bin_statistic with the values check made before the size check.
bin_statistic_values_checked_first(x, y, values, dim, statistic, bins, normalize, standardized) ==
    LET vals == IF ~values.given /\ statistic = "count" THEN x ELSE values.v
        inverted == ~standardized /\ dim.invert_y
        pitch_range ==
            IF standardized THEN <<<<0, 105 * Scale>>, <<0, 68 * Scale>>>>
            ELSE IF dim.invert_y
            THEN <<<<dim.left.v, dim.right.v>>, <<dim.top.v, dim.bottom.v>>>>
            ELSE <<<<dim.left.v, dim.right.v>>, <<dim.bottom.v, dim.top.v>>>>
        y1 == IF inverted THEN [i \in 1..Len(y) |-> dim.bottom.v - y[i]] ELSE y
    IN IF values_missing(values, statistic) THEN BinRaise("ValueError", 95)
       ELSE IF size_mismatch(x, y) THEN BinRaise("ValueError", 77)
       ELSE IF ~standardized /\ dim = NoDim THEN BinRaise("AttributeError", 98)
       ELSE bin_statistic_post(dim, normalize, standardized,
                binned_statistic_2d(x, y1, vals, statistic, bins, pitch_range))

\* bin_statistic(x, y, values, dim, statistic, bins, normalize, standardized).
\* values is [given, v]: given = FALSE is values=None.  dim = NoDim is
\* dim=None, on which reading .invert_y raises AttributeError.
bin_statistic(x, y, values, dim, statistic, bins, normalize, standardized) ==
    LET vals == IF ~values.given /\ statistic = "count" THEN x ELSE values.v
        inverted == ~standardized /\ dim.invert_y
        pitch_range ==
            IF standardized THEN <<<<0, 105 * Scale>>, <<0, 68 * Scale>>>>
            ELSE IF dim.invert_y
            THEN <<<<dim.left.v, dim.right.v>>, <<dim.top.v, dim.bottom.v>>>>
            ELSE <<<<dim.left.v, dim.right.v>>, <<dim.bottom.v, dim.top.v>>>>
        y1 == IF inverted THEN [i \in 1..Len(y) |-> dim.bottom.v - y[i]] ELSE y
    IN IF size_mismatch(x, y) THEN BinRaise("ValueError", 77)
       ELSE IF values_missing(values, statistic) THEN BinRaise("ValueError", 95)
       ELSE IF ~standardized /\ dim = NoDim THEN BinRaise("AttributeError", 98)
       ELSE bin_statistic_post(dim, normalize, standardized,
                binned_statistic_2d(x, y1, vals, statistic, bins, pitch_range))

(***************************************************************************)
(* State.  call is the call being made with its arguments (drawn by Init), *)
(* pc its position ("call" before it runs, "returned" after), result what  *)
(* create_pitch_dims returned or raised, pitch the pitch object that       *)
(* BasePitch.__init__ built or was building when it raised.                *)
(***************************************************************************)
VARIABLES call, pc, result, pitch, stats

vars == <<call, pc, result, pitch, stats>>

NoResult == [status |-> "none", dim |-> NoDim]
NoPitch == [status |-> "none"]

\* dimensions.create_pitch_dims(pitch_type, pitch_width, pitch_length, post_distance)
CreateCalls ==
    {[op |-> "create_pitch_dims", pitch_type |-> pt, pitch_width |-> w,
      pitch_length |-> l, post_distance |-> pd] :
        pt \in PitchTypes, w \in Sizes, l \in Sizes, pd \in PostDistances}

\* BasePitch.__init__(pitch_type=..., half=..., pad_left=..., ...)
PitchCalls ==
    {[op |-> "BasePitch", pitch_type |-> pt, pitch_width |-> w,
      pitch_length |-> l, half |-> h[1], label |-> h[2], pad_left |-> pad] :
        pt \in PitchTypes, w \in Sizes, l \in Sizes,
        h \in BOOLEAN \X BOOLEAN, pad \in {None, Num(-60 * Scale)}}

Init ==
    /\ call \in CreateCalls \cup PitchCalls
    /\ pc = "call"
    /\ result = NoResult
    /\ pitch = NoPitch
    /\ stats = NoStats

CreatePitchDims ==
    /\ pc = "call"
    /\ call.op = "create_pitch_dims"
    /\ result' = create_pitch_dims(call.pitch_type, call.pitch_width,
                                   call.pitch_length, call.post_distance)
    /\ pc' = "returned"
    /\ UNCHANGED <<call, pitch, stats>>

PitchInit ==
    /\ pc = "call"
    /\ call.op = "BasePitch"
    /\ pitch' = BasePitch(call.pitch_type, call.half, call.pad_left,
                          call.pitch_length, call.pitch_width, call.label)
    /\ pc' = "returned"
    /\ UNCHANGED <<call, result, stats>>

Next == CreatePitchDims \/ PitchInit

Spec == Init /\ [][Next]_vars

(***************************************************************************)
(* Calls of bin_statistic.  The points are representative positions (in    *)
(* metres) relative to the 40 x 20 'ikf' pitch: outside on each side,      *)
(* inside, on the right/top edges, on the centre.                          *)
(***************************************************************************)
Points ==
    {<<-1, 10>>, <<110, 10>>, <<10, -1>>, <<10, 70>>,
     <<10, 5>>, <<30, 15>>, <<40, 20>>, <<20, 10>>}
PointSeqs == UNION {[1..n -> Points] : n \in 0..MaxPoints}
XOf(ps) == [i \in 1..Len(ps) |-> ps[i][1] * Scale]
YOf(ps) == [i \in 1..Len(ps) |-> ps[i][2] * Scale]
DropLast(s) == IF s = <<>> THEN s ELSE SubSeq(s, 1, Len(s) - 1)
ValuesOf(n) == [i \in 1..n |-> 2 * i + 1]
BinChoices == {<<1, 1>>, <<2, 2>>, <<5, 4>>}
\* (statistic, values given)
StatisticChoices ==
    {<<"count", FALSE>>, <<"count", TRUE>>, <<"sum", FALSE>>, <<"sum", TRUE>>,
     <<"mean", TRUE>>}
\* A Dimension Model with the y axis inverted: KorfballBaseDims(invert_y=True)
\* with the origin at the top, so bottom is the larger y.
inverted_dims ==
    [ikf_dims.dim EXCEPT !.invert_y = TRUE, !.top = ikf_dims.dim.bottom,
                         !.bottom = ikf_dims.dim.top]
\* (standardized, dim)
RangeChoices ==
    {<<FALSE, ikf_dims.dim>>, <<TRUE, ikf_dims.dim>>, <<TRUE, NoDim>>,
     <<FALSE, inverted_dims>>,
     <<FALSE, custom_dims(Num(10 * Scale), Num(30 * Scale), Num(5 * Scale)).dim>>}

\* One call of bin_statistic: y is one element short of x when short holds.
BinCall(ps, short, sv, rc, bins, normalize) ==
    [op |-> "bin_statistic", x |-> XOf(ps),
     y |-> IF short THEN DropLast(YOf(ps)) ELSE YOf(ps),
     values |-> [given |-> sv[2], v |-> IF sv[2] THEN ValuesOf(Len(ps)) ELSE <<>>],
     dim |-> rc[2], statistic |-> sv[1], bins |-> bins,
     normalize |-> normalize, standardized |-> rc[1]]

InitBin ==
    /\ \E ps \in PointSeqs, short \in BOOLEAN, sv \in StatisticChoices,
          rc \in RangeChoices, bins \in BinChoices, normalize \in BOOLEAN :
            call = BinCall(ps, short, sv, rc, bins, normalize)
    /\ pc = "call"
    /\ result = NoResult
    /\ pitch = NoPitch
    /\ stats = NoStats

\* The caller's x, y, values and dim as they would be had line 99 reflected
\* y in place (y -= ...) instead of binding a new array.
inputs_after_y_reflected_in_place(c) ==
    [x |-> c.x,
     y |-> IF c.dim # NoDim /\ ~c.standardized /\ c.dim.invert_y
           THEN [i \in 1..Len(c.y) |-> c.dim.bottom.v - c.y[i]] ELSE c.y,
     values |-> c.values, dim |-> c.dim]

\* The caller's x, y, values and dim as the call leaves them.  np.ravel
\* (74-75), `values = x` (93) and `y = dim.bottom - y` (99) bind local names
\* to views or new arrays, dim is only read, and the in-place assignments
\* (114, 126-132) are to the binnumber array binned_statistic_2d returned.
inputs_after(c) == [x |-> c.x, y |-> c.y, values |-> c.values, dim |-> c.dim]

BinStatistic ==
    /\ pc = "call"
    /\ call.op = "bin_statistic"
    /\ stats' = bin_statistic(call.x, call.y, call.values, call.dim,
                              call.statistic, call.bins, call.normalize,
                              call.standardized)
    /\ call' = [call EXCEPT !.x = inputs_after(call).x,
                            !.y = inputs_after(call).y,
                            !.values = inputs_after(call).values,
                            !.dim = inputs_after(call).dim]
    /\ pc' = "returned"
    /\ UNCHANGED <<result, pitch>>

NextBin == BinStatistic

SpecBin == InitBin /\ [][NextBin]_vars

(***************************************************************************)
(* Calls of bin_statistic with statistic='count' on four points of a       *)
(* non-inverted pitch: one position in each quadrant of the 40 x 20 pitch, *)
(* one left of it and its centre.                                          *)
(***************************************************************************)
NumQuadrants == 2 * 2
QuadPoints ==
    {<<10, 15>>, <<30, 15>>, <<10, 5>>, <<30, 5>>, <<-1, 10>>, <<20, 10>>}
QuadCall(ps, bins, standardized, given) ==
    [op |-> "bin_statistic", x |-> XOf(ps), y |-> YOf(ps),
     values |-> [given |-> given, v |-> IF given THEN ValuesOf(Len(ps)) ELSE <<>>],
     dim |-> ikf_dims.dim, statistic |-> "count", bins |-> bins,
     normalize |-> FALSE, standardized |-> standardized]

InitQuad ==
    /\ \E ps \in [1..NumQuadrants -> QuadPoints], bins \in {<<2, 2>>, <<5, 4>>},
          standardized \in BOOLEAN, given \in BOOLEAN :
            call = QuadCall(ps, bins, standardized, given)
    /\ pc = "call"
    /\ result = NoResult
    /\ pitch = NoPitch
    /\ stats = NoStats

SpecQuad == InitQuad /\ [][NextBin]_vars

(***************************************************************************)
(* Properties of the dimension factory and the pitch layer.                *)
(***************************************************************************)
Returned(op) == pc = "returned" /\ call.op = op
Positive(a) == IsNum(a) /\ a.v > 0

\* The error classes of the specification as the code raises them.
InvalidConfiguration == "TypeError"     \* _pitch_base.py: raise TypeError('Invalid argument: ...')
MissingParameter == "TypeError"         \* _pitch_base.py: raise TypeError("... must be specified.")

\* 'ikf', or 'custom' with positive width and length.
SupportedCall ==
    \/ call.pitch_type = "ikf"
    \/ /\ call.pitch_type = "custom"
       /\ Positive(call.pitch_width)
       /\ Positive(call.pitch_length)

RECURSIVE StrictlyAscending(_)
StrictlyAscending(s) ==
    Len(s) < 2 \/ (Lt(s[1], s[2]) /\ StrictlyAscending(Tail(s)))

RECURSIVE Ascending(_)
Ascending(s) ==
    Len(s) < 2 \/ (IsNum(s[1]) /\ IsNum(s[2]) /\ s[1].v <= s[2].v /\ Ascending(Tail(s)))

\* C1 (as stated): for every supported pitch type the returned model has
\* post_left < korf_left < penalty_left < freepass_left < center_length <
\* freepass_right < penalty_right < korf_right < post_right.
C1_GoalSideOrdering ==
    (Returned("create_pitch_dims") /\ SupportedCall) =>
        /\ result.status = "ok"
        /\ StrictlyAscending(<<result.dim.post_left, result.dim.korf_left,
                               result.dim.penalty_left, result.dim.freepass_left,
                               result.dim.center_length, result.dim.freepass_right,
                               result.dim.penalty_right, result.dim.korf_right,
                               result.dim.post_right>>)

PopulatedFields ==
    {"left", "right", "bottom", "top", "width", "length", "aspect",
     "post_left", "post_right", "korf_left", "korf_right",
     "penalty_left", "penalty_right", "penalty_area_top", "penalty_area_bottom",
     "penalty_area_left", "penalty_area_right", "freepass_left", "freepass_right",
     "center_width", "center_length"}

\* C2 (as stated): for every supported pitch type every derived boundary and
\* landmark field of the returned model has a value, and so does every entry
\* of x_markings_sorted and y_markings_sorted.
C2_FullyPopulated ==
    (Returned("create_pitch_dims") /\ SupportedCall) =>
        /\ result.status = "ok"
        /\ \A f \in PopulatedFields : IsNum(result.dim[f])
        /\ \A i \in 1..Len(result.dim.x_markings_sorted) :
               IsNum(result.dim.x_markings_sorted[i])
        /\ \A i \in 1..Len(result.dim.y_markings_sorted) :
               IsNum(result.dim.y_markings_sorted[i])

\* C3 (as stated): for every supported pitch type x_markings_sorted holds the
\* 11 x-landmarks in anatomical order and its values ascend.
C3_XMarkingsAscending ==
    (Returned("create_pitch_dims") /\ SupportedCall) =>
        /\ result.status = "ok"
        /\ Len(result.dim.x_markings_sorted) = 11
        /\ result.dim.x_markings_sorted =
             <<result.dim.left, result.dim.penalty_area_left, result.dim.post_left,
               result.dim.penalty_left, result.dim.freepass_left,
               result.dim.center_length, result.dim.freepass_right,
               result.dim.penalty_right, result.dim.post_right,
               result.dim.penalty_area_right, result.dim.right>>
        /\ Ascending(result.dim.x_markings_sorted)

\* C4 (as stated): create_pitch_dims with a pitch_type outside the supported
\* set fails with InvalidConfiguration and returns no model, whatever the
\* other arguments.
C4_UnknownTypeRejected ==
    (Returned("create_pitch_dims") /\ call.pitch_type \notin valid) =>
        /\ result.status = InvalidConfiguration
        /\ result.dim = NoDim

\* C5: for the variable-size type 'custom', an omitted pitch_width or
\* pitch_length makes construction fail with the MissingParameter error
\* (TypeError) and no Dimension Model is returned, with or without
\* post_distance, from create_pitch_dims and from the pitch constructor.
C5_MissingSizeRejected ==
    /\ (Returned("create_pitch_dims") /\ call.pitch_type \in size_varies
        /\ (IsNone(call.pitch_width) \/ IsNone(call.pitch_length))) =>
            (result.status = MissingParameter /\ result.dim = NoDim)
    /\ (Returned("BasePitch") /\ call.pitch_type \in size_varies
        /\ (IsNone(call.pitch_width) \/ IsNone(call.pitch_length))) =>
            (pitch.status = MissingParameter /\ pitch.stage = "validation"
             /\ pitch.dim = NoDim)

C5_Witness ==
    /\ Returned("create_pitch_dims")
    /\ call.pitch_type = "custom"
    /\ IsNone(call.pitch_width)
    /\ Positive(call.pitch_length)
    /\ IsNum(call.post_distance)
    /\ result.status = "TypeError"

\* C6 (as stated): for 'custom' a zero or negative pitch_width or
\* pitch_length is rejected with InvalidConfiguration; no model with
\* non-positive width or length is ever returned.
C6_NonPositiveSizeRejected ==
    (Returned("create_pitch_dims") /\ call.pitch_type \in size_varies) =>
        /\ ((IsNum(call.pitch_width) /\ call.pitch_width.v <= 0)
            \/ (IsNum(call.pitch_length) /\ call.pitch_length.v <= 0)) =>
               (result.status = InvalidConfiguration /\ result.dim = NoDim)
        /\ result.status = "ok" =>
               (Positive(result.dim.width) /\ Positive(result.dim.length))

\* C7: for the fixed-size type 'ikf', supplying pitch_width and/or
\* pitch_length is not an error: create_pitch_dims returns the same model,
\* field for field, as when they are omitted; the pitch layer passes
\* validation, warns exactly when a size was supplied, and holds that model.
C7_FixedSizeIgnoresSizes ==
    /\ (Returned("create_pitch_dims") /\ call.pitch_type = "ikf") =>
           /\ result.status = "ok"
           /\ result.dim = create_pitch_dims("ikf", None, None, None).dim
    /\ (Returned("BasePitch") /\ call.pitch_type = "ikf") =>
           /\ pitch.stage \notin {"validation", "dims"}
           /\ pitch.dim = create_pitch_dims("ikf", None, None, None).dim
           /\ (\E i \in 1..Len(pitch.warnings) : pitch.warnings[i] = WarnSizeIgnored)
                <=> (~IsNone(call.pitch_width) \/ ~IsNone(call.pitch_length))

C7_Witness ==
    /\ Returned("create_pitch_dims")
    /\ call.pitch_type = "ikf"
    /\ Positive(call.pitch_width)
    /\ Positive(call.pitch_length)
    /\ call.pitch_width # Num(Cm(2000))
    /\ result.status = "ok"
    /\ result.dim.width = Num(Cm(2000))

\* C8: for 'custom' with post_distance omitted the post distance used is
\* pitch_length / 6 (post_left = left + pitch_length/6); with post_distance
\* supplied, post_left = left + post_distance.
C8_PostDistanceDefault ==
    (Returned("create_pitch_dims") /\ call.pitch_type = "custom"
     /\ result.status = "ok") =>
        /\ IsNum(result.dim.post_left)
        /\ IsNone(call.post_distance) =>
               6 * (result.dim.post_left.v - result.dim.left.v) = call.pitch_length.v
        /\ IsNum(call.post_distance) =>
               result.dim.post_left.v = result.dim.left.v + call.post_distance.v

C8_Witness ==
    /\ Returned("create_pitch_dims")
    /\ call.pitch_type = "custom"
    /\ IsNone(call.post_distance)
    /\ Positive(call.pitch_width)
    /\ call.pitch_length = Num(3 * Step)
    /\ result.status = "ok"
    /\ result.dim.post_left = Num(5 * Scale)

\* C9 (as stated): for every Dimension Model returned for a valid pitch type,
\* pitch_extent has length 4 with pitch_extent[0] < pitch_extent[1], and its
\* last two entries are (bottom, top) when invert_y is false and (top, bottom)
\* exactly when invert_y is true.
C9_PitchExtent ==
    (Returned("create_pitch_dims") /\ call.pitch_type \in valid
     /\ result.status = "ok") =>
        /\ Len(result.dim.pitch_extent) = 4
        /\ Lt(result.dim.pitch_extent[1], result.dim.pitch_extent[2])
        /\ ~result.dim.invert_y =>
               (result.dim.pitch_extent[3] = result.dim.bottom
                /\ result.dim.pitch_extent[4] = result.dim.top)
        /\ result.dim.invert_y =>
               (result.dim.pitch_extent[3] = result.dim.top
                /\ result.dim.pitch_extent[4] = result.dim.bottom)

(***************************************************************************)
(* Properties of bin_statistic.                                            *)
(***************************************************************************)
CountOutside == Cardinality({i \in 1..Len(stats.inside) : ~stats.inside[i]})
GridTotal ==
    LET cells == Flatten(stats.statistic)
    IN SumSeq([i \in 1..Len(cells) |-> cells[i].n])

\* C10: with statistic='count' and normalize=False every input point is
\* accounted for: the cells of the statistic grid (all whole counts) sum,
\* together with the number of points whose inside flag is false, to N.
C10_CountAccountsForEveryPoint ==
    (Returned("bin_statistic") /\ call.statistic = "count" /\ ~call.normalize
     /\ stats.status = "ok") =>
        /\ \A r \in 1..Len(stats.statistic) : \A c \in 1..Len(stats.statistic[r]) :
               stats.statistic[r][c].d = 1 /\ stats.statistic[r][c].n >= 0
        /\ Len(stats.inside) = Len(call.x)
        /\ GridTotal + CountOutside = Len(call.x)

C10_Witness ==
    /\ Returned("bin_statistic")
    /\ call.statistic = "count"
    /\ ~call.normalize
    /\ ~call.standardized
    /\ call.bins = <<2, 2>>
    /\ stats.status = "ok"
    /\ Len(call.x) = 2
    /\ stats.inside = <<TRUE, FALSE>>
    /\ GridTotal = 1

(***************************************************************************)
(* Reading the result of bin_statistic.                                    *)
(***************************************************************************)
BinOk == Returned("bin_statistic") /\ stats.status = "ok"
num_points == Len(call.x)
num_x == call.bins[1]
num_y == call.bins[2]
\* The range the call bins over, as (low, high) per axis.
x_low == IF call.standardized THEN 0 ELSE call.dim.left.v
x_high == IF call.standardized THEN 105 * Scale ELSE call.dim.right.v
y_low ==
    IF call.standardized THEN 0
    ELSE IF call.dim.invert_y THEN call.dim.top.v ELSE call.dim.bottom.v
y_high ==
    IF call.standardized THEN 68 * Scale
    ELSE IF call.dim.invert_y THEN call.dim.bottom.v ELSE call.dim.top.v
\* The points whose binnumber column is (c, r), zero-based.
PointsIn(c, r) ==
    {i \in 1..num_points : stats.binnumber[1][i] = c /\ stats.binnumber[2][i] = r}
InsidePoints == {i \in 1..num_points : stats.inside[i]}
\* What point i contributes to 'count' (1) or 'sum' (its value).
Weight(i) ==
    IF call.statistic = "count" THEN 1
    ELSE IF call.values.given THEN call.values.v[i] ELSE call.x[i]
RECURSIVE WeightOf(_)
WeightOf(S) ==
    IF S = {} THEN 0
    ELSE LET i == CHOOSE j \in S : TRUE IN Weight(i) + WeightOf(S \ {i})

Finite(cell) == cell.d # 0
RECURSIVE GCD(_, _)
GCD(a, b) == IF b = 0 THEN a ELSE GCD(b, a % b)
\* The sum of two finite cells, in lowest terms.
FracAdd(p, q) ==
    LET n == p.n * q.d + q.n * p.d
        d == p.d * q.d
        g == GCD(Abs(n), Abs(d))
    IN Cell(n \div g, d \div g)
RECURSIVE FracSum(_)
FracSum(cells) ==
    IF cells = <<>> THEN Cell(0, 1) ELSE FracAdd(Head(cells), FracSum(Tail(cells)))
AllFinite(m) == \A r \in 1..Len(m) : \A c \in 1..Len(m[r]) : Finite(m[r][c])
NoneFinite(m) == \A r \in 1..Len(m) : \A c \in 1..Len(m[r]) : ~Finite(m[r][c])
SumsToOne(m) == AllFinite(m) /\ LET t == FracSum(Flatten(m)) IN t.n = t.d

\* C11 as stated: with normalize=True the cells of the returned grid sum to
\* 1, for any input points, none inside the pitch range included.
C11_NormalizedSumsToOne ==
    (BinOk /\ call.normalize) => SumsToOne(stats.statistic)

\* C11, amended: with normalize=True the cells sum to 1, each being its raw
\* cell over the raw total, whenever the raw cells are finite and their total
\* is not zero; when the total is zero (no point inside the range) or a raw
\* cell is NaN (an empty bin under 'mean') no returned cell is a number.
C11_NormalizedSumsToOneWhenTotalNonZero ==
    (BinOk /\ call.normalize) =>
        /\ SumsToOne(stats.statistic) \/ NoneFinite(stats.statistic)
        /\ call.statistic \in {"count", "sum"} =>
             IF WeightOf(InsidePoints) = 0 THEN NoneFinite(stats.statistic)
             ELSE /\ SumsToOne(stats.statistic)
                  /\ \A r \in 1..num_y : \A c \in 1..num_x :
                       stats.statistic[r][c].n * WeightOf(InsidePoints)
                         = WeightOf(PointsIn(c - 1, r - 1)) * stats.statistic[r][c].d

C11_Witness ==
    /\ BinOk
    /\ call.normalize
    /\ call.statistic = "count"
    /\ call.bins = <<2, 2>>
    /\ stats.inside = <<TRUE, TRUE>>
    /\ stats.binnumber[1][1] # stats.binnumber[1][2]
    /\ SumsToOne(stats.statistic)

\* The right and top edges of the range binned over: dim.right and dim.top
\* when binning over the Dimension Model.
right_edge == x_high
top_edge == IF call.standardized THEN 68 * Scale ELSE call.dim.top.v
InRangeX(i) == x_low <= call.x[i] /\ call.x[i] <= x_high
InRangeY(i) == y_low <= call.y[i] /\ call.y[i] <= y_high

\* C12: a point exactly on the pitch's right edge or top edge is put in the
\* valid bin next to that edge (the histogram's last bin on that axis: the
\* last column, the top row), has a non-negative index on that axis and, when
\* in range on the other axis too, is not marked outside.
C12_EdgePointInLastBin ==
    BinOk =>
        \A i \in 1..num_points :
            /\ call.x[i] = right_edge =>
                 /\ stats.binnumber[1][i] = num_x - 1
                 /\ stats.binnumber[1][i] >= 0
                 /\ InRangeY(i) => stats.inside[i]
            /\ call.y[i] = top_edge =>
                 /\ stats.binnumber[2][i] = 0
                 /\ InRangeX(i) => stats.inside[i]

C12_Witness ==
    /\ BinOk
    /\ ~call.standardized
    /\ call.bins = <<5, 4>>
    /\ num_points = 2
    /\ call.x[2] = call.dim.right.v
    /\ call.y[2] = call.dim.top.v
    /\ stats.binnumber[1][2] = 4
    /\ stats.binnumber[2][2] = 0
    /\ stats.inside[2]

\* The keys of a result: an error carries none of them.
ResultKeys == {"statistic", "x_grid", "y_grid", "cx", "cy", "binnumber", "inside"}
NoResultReturned == DOMAIN stats \cap ResultKeys = {}
\* ValueError("x and y must be the same size")
DimensionMismatch == BinRaise("ValueError", 77)
\* ValueError("values on which to calculate the statistic are missing")
MissingValues == BinRaise("ValueError", 95)

\* C13: when x and y differ in flattened length bin_statistic fails with the
\* size error and returns nothing, whatever the other arguments are.
C13_SizeMismatchRejected ==
    (Returned("bin_statistic") /\ Len(call.x) # Len(call.y)) =>
        stats = DimensionMismatch /\ NoResultReturned

C13_Witness ==
    /\ Returned("bin_statistic")
    /\ Len(call.x) = 2
    /\ Len(call.y) = 1
    /\ call.dim = NoDim
    /\ ~call.values.given
    /\ call.statistic = "sum"
    /\ stats = DimensionMismatch

\* The call as it would be with values=x passed explicitly.
WithValuesX ==
    bin_statistic(call.x, call.y, [given |-> TRUE, v |-> call.x], call.dim,
                  call.statistic, call.bins, call.normalize, call.standardized)

\* C14: with values omitted bin_statistic succeeds exactly when statistic is
\* 'count', where values defaults to x; with any other statistic it fails
\* with the missing-values error and returns nothing.  (x and y of one
\* length and a Dimension Model supplied.)
C14_ValuesOmitted ==
    (Returned("bin_statistic") /\ ~call.values.given
     /\ Len(call.x) = Len(call.y)) =>
        /\ call.statistic # "count" => stats = MissingValues /\ NoResultReturned
        /\ call.statistic = "count" =>
             /\ stats # MissingValues
             /\ stats = WithValuesX
             /\ call.dim # NoDim => stats.status = "ok"

C14_Witness ==
    /\ Returned("bin_statistic")
    /\ ~call.values.given
    /\ call.statistic = "sum"
    /\ call.dim # NoDim
    /\ Len(call.x) = 2
    /\ Len(call.y) = 2
    /\ stats = MissingValues

\* C15: every slot of binnumber is -1 or a zero-based index below the number
\* of bins on its axis, and it is -1 exactly when the point is out of the
\* pitch range on that axis (below the low edge or above the high edge); the
\* raw sentinels (0 meaning outside, num_bins + 1) never come back.
C15_BinnumberRecoded ==
    BinOk =>
        \A i \in 1..num_points :
            /\ stats.binnumber[1][i] \in {-1} \cup (0..(num_x - 1))
            /\ stats.binnumber[1][i] = -1 <=> ~InRangeX(i)
            /\ stats.binnumber[2][i] \in {-1} \cup (0..(num_y - 1))
            /\ stats.binnumber[2][i] = -1 <=> ~InRangeY(i)

C15_Witness ==
    /\ BinOk
    /\ call.bins = <<5, 4>>
    /\ num_points = 2
    /\ call.x[1] > x_high
    /\ call.y[2] < y_low
    /\ stats.binnumber[1] = <<-1, 1>>
    /\ stats.binnumber[2][1] = 1
    /\ stats.binnumber[2][2] = -1

\* C16: inside[i] is true exactly when neither slot of point i is -1; a point
\* out of range on one axis only has inside false while its slot on the
\* other axis keeps a valid bin index.
C16_InsideFlag ==
    BinOk =>
        /\ Len(stats.inside) = num_points
        /\ \A i \in 1..num_points :
            /\ stats.inside[i] <=>
                 (stats.binnumber[1][i] # -1 /\ stats.binnumber[2][i] # -1)
            /\ (~InRangeX(i) /\ InRangeY(i)) =>
                 ~stats.inside[i] /\ stats.binnumber[2][i] \in 0..(num_y - 1)
            /\ (InRangeX(i) /\ ~InRangeY(i)) =>
                 ~stats.inside[i] /\ stats.binnumber[1][i] \in 0..(num_x - 1)

C16_Witness ==
    /\ BinOk
    /\ call.bins = <<2, 2>>
    /\ num_points = 2
    /\ InRangeX(1) /\ ~InRangeY(1)
    /\ stats.inside = <<FALSE, TRUE>>
    /\ stats.binnumber[1][1] = 0
    /\ stats.binnumber[2][1] = -1

Shape(m, rows, cols) == Len(m) = rows /\ \A r \in 1..Len(m) : Len(m[r]) = cols

\* C17: for N points and bins = (nx, ny) a successful call returns binnumber
\* with 2 rows and N columns, inside of length N, statistic with ny rows and
\* nx columns, x_grid and y_grid with ny + 1 rows and nx + 1 columns, and cx
\* and cy with ny rows and nx columns.
C17_ResultShapes ==
    BinOk =>
        /\ Shape(stats.binnumber, 2, num_points)
        /\ Len(stats.inside) = num_points
        /\ Shape(stats.statistic, num_y, num_x)
        /\ Shape(stats.x_grid, num_y + 1, num_x + 1)
        /\ Shape(stats.y_grid, num_y + 1, num_x + 1)
        /\ Shape(stats.cx, num_y, num_x)
        /\ Shape(stats.cy, num_y, num_x)

C17_Witness ==
    /\ BinOk
    /\ call.bins = <<5, 4>>
    /\ num_points = 2
    /\ Shape(stats.statistic, 4, 5)
    /\ Shape(stats.x_grid, 5, 6)
    /\ Shape(stats.cy, 4, 5)
    /\ Shape(stats.binnumber, 2, 2)

\* Point i is strictly inside the quadrant (qx, qy) of the range: qx = 0 is
\* the left half, qy = 0 the top half.
InQuadrant(i, qx, qy) ==
    LET mx == (x_low + x_high) \div 2
        my == (y_low + y_high) \div 2
    IN /\ IF qx = 0 THEN x_low < call.x[i] /\ call.x[i] < mx
                    ELSE mx < call.x[i] /\ call.x[i] < x_high
       /\ IF qy = 0 THEN my < call.y[i] /\ call.y[i] < y_high
                    ELSE y_low < call.y[i] /\ call.y[i] < my
OnePointPerQuadrant ==
    /\ call.bins = <<2, 2>>
    /\ num_points = NumQuadrants
    /\ \A qx \in {0, 1} : \A qy \in {0, 1} :
           \E i \in 1..num_points : InQuadrant(i, qx, qy)

\* C18: with 'count' on a non-inverted pitch statistic[r][c] is the number of
\* points whose binnumber column is (c, r), row 0 being the top of the pitch
\* and column 0 its left; with bins = (2, 2) and one point in each quadrant
\* every cell is 1, every inside flag is true and the four binnumber columns
\* differ pairwise.
C18_CountMatchesBinnumber ==
    (BinOk /\ call.statistic = "count" /\ ~call.normalize /\ ~call.dim.invert_y) =>
        /\ \A r \in 1..num_y : \A c \in 1..num_x :
               stats.statistic[r][c] = Cell(Cardinality(PointsIn(c - 1, r - 1)), 1)
        /\ \A i \in InsidePoints : \A j \in InsidePoints :
               /\ call.x[i] < call.x[j] => stats.binnumber[1][i] <= stats.binnumber[1][j]
               /\ call.y[i] > call.y[j] => stats.binnumber[2][i] <= stats.binnumber[2][j]
        /\ OnePointPerQuadrant =>
               /\ \A r \in 1..2 : \A c \in 1..2 : stats.statistic[r][c] = Cell(1, 1)
               /\ \A i \in 1..num_points : stats.inside[i]
               /\ \A i \in 1..num_points : \A j \in 1..num_points :
                      i # j => <<stats.binnumber[1][i], stats.binnumber[2][i]>>
                                 # <<stats.binnumber[1][j], stats.binnumber[2][j]>>
               /\ \A i \in 1..num_points : \A qx \in {0, 1} : \A qy \in {0, 1} :
                      InQuadrant(i, qx, qy) =>
                          stats.binnumber[1][i] = qx /\ stats.binnumber[2][i] = qy

C18_Witness ==
    /\ BinOk
    /\ OnePointPerQuadrant
    /\ InQuadrant(1, 1, 0)
    /\ stats.binnumber[1][1] = 1
    /\ stats.binnumber[2][1] = 0
    /\ stats.statistic = <<<<Cell(1, 1), Cell(1, 1)>>, <<Cell(1, 1), Cell(1, 1)>>>>

\* C19: bin_statistic called with standardized=True and dim left at its
\* default None completes and returns a result binned over x in [0, 105],
\* y in [0, 68].
C19_StandardizedWithoutDim ==
    (Returned("bin_statistic") /\ call.standardized /\ call.dim = NoDim
     /\ ~size_mismatch(call.x, call.y)
     /\ ~values_missing(call.values, call.statistic)) =>
        /\ stats.status = "ok"
        /\ stats.x_grid[1][1] = 0
        /\ stats.x_grid[1][num_x + 1] = 105 * Scale
        /\ {stats.y_grid[1][1], stats.y_grid[num_y + 1][1]} = {0, 68 * Scale}

default_pitch_type == "fullsize"

\* C21: a pitch constructed with the default pitch_type 'fullsize' passes
\* the pitch-type validation and the constructor does not raise.
C21_DefaultTypeAccepted ==
    (Returned("BasePitch") /\ call.pitch_type = default_pitch_type) =>
        /\ pitch.stage # "validation"
        /\ pitch.status = "ok"

(***************************************************************************)
(* Further properties of bin_statistic.                                    *)
(***************************************************************************)
\* Dimension Models of different sizes and of either invert_y setting.
OtherDims ==
    {ikf_dims.dim, inverted_dims,
     custom_dims(Num(10 * Scale), Num(30 * Scale), Num(5 * Scale)).dim}
\* The call as it would be with the Dimension Model d.
WithDim(d) ==
    bin_statistic(call.x, call.y, call.values, d, call.statistic, call.bins,
                  call.normalize, call.standardized)

\* C22: with standardized=True the result does not depend on the Dimension
\* Model: the same call with any other (non-None) Dimension Model, of other
\* dimensions or the other invert_y setting, returns the same statistic,
\* grids, centers, binnumber and inside.
C22_StandardizedIgnoresDim ==
    (Returned("bin_statistic") /\ call.standardized /\ call.dim # NoDim) =>
        \A d \in OtherDims : WithDim(d) = stats

C22_Witness ==
    /\ BinOk
    /\ call.standardized
    /\ call.dim = ikf_dims.dim
    /\ num_points = 2
    /\ call.bins = <<5, 4>>
    /\ stats.inside = <<TRUE, FALSE>>
    /\ WithDim(inverted_dims) = stats

\* 1-D arrays of n finite numbers.
ValueArrays(n) == {[i \in 1..n |-> 0], [i \in 1..n |-> 2 - 3 * i]}
\* The call as it would be with values v ([given, v]).
WithValues(v) ==
    bin_statistic(call.x, call.y, v, call.dim, call.statistic, call.bins,
                  call.normalize, call.standardized)

\* C23: with statistic='count' the values argument is ignored: for the same
\* x and y the returned statistic, binnumber and inside (the whole outcome)
\* are the same whether values is omitted or is any array of N finite numbers.
C23_CountIgnoresValues ==
    (Returned("bin_statistic") /\ call.statistic = "count"
     /\ ~size_mismatch(call.x, call.y)) =>
        /\ WithValues([given |-> FALSE, v |-> <<>>]) = stats
        /\ \A v \in ValueArrays(num_points) :
               WithValues([given |-> TRUE, v |-> v]) = stats

C23_Witness ==
    /\ BinOk
    /\ call.statistic = "count"
    /\ call.values.given
    /\ call.values.v = <<3, 5, 7, 9>>
    /\ OnePointPerQuadrant
    /\ WithValues([given |-> FALSE, v |-> <<>>]) = stats

\* The call repeated with the single point (px, py) and statistic 'count'.
PlacedAt(px, py) ==
    bin_statistic(<<px>>, <<py>>, [given |-> FALSE, v |-> <<>>], call.dim,
                  "count", call.bins, FALSE, call.standardized)

\* The one-point result p puts its point in column c and row r (1-based).
LandsIn(p, c, r) ==
    /\ p.status = "ok"
    /\ p.binnumber = <<<<c - 1>>, <<r - 1>>>>
    /\ p.inside = <<TRUE>>
    /\ p.statistic[r][c] = Cell(1, 1)

\* C24: for a non-inverted pitch the bin-center grids follow the top-first
\* row order of statistic and binnumber: cx[r][c] is the midpoint of x-edges
\* c and c+1, cy[r][c] the midpoint of the y-bin that statistic row r
\* aggregates (cy decreases as r increases), so a point placed at
\* (cx[r][c], cy[r][c]) receives binnumber column (c, r).
C24_CentersFollowRowOrder ==
    (BinOk /\ ~call.dim.invert_y) =>
        \A r \in 1..num_y : \A c \in 1..num_x :
            /\ 2 * stats.cx[r][c] = stats.x_grid[r][c] + stats.x_grid[r][c + 1]
            /\ 2 * stats.cy[r][c] = stats.y_grid[r][c] + stats.y_grid[r + 1][c]
            /\ r < num_y => stats.cy[r][c] > stats.cy[r + 1][c]
            /\ LandsIn(PlacedAt(stats.cx[r][c], stats.cy[r][c]), c, r)

C24_Witness ==
    /\ BinOk
    /\ ~call.standardized
    /\ call.bins = <<5, 4>>
    /\ stats.cx[1][5] = 36 * Scale
    /\ 2 * stats.cy[1][5] = 35 * Scale
    /\ stats.cy[4][5] < stats.cy[1][5]
    /\ PlacedAt(stats.cx[1][5], stats.cy[1][5]).binnumber = <<<<4>>, <<0>>>>

(***************************************************************************)
(* Further properties of the Dimension Model.                              *)
(***************************************************************************)
SupportedModel ==
    Returned("create_pitch_dims") /\ SupportedCall /\ result.status = "ok"
YLandmarks ==
    <<result.dim.bottom, result.dim.penalty_area_bottom, result.dim.center_width,
      result.dim.penalty_area_top, result.dim.top>>

AspectIsRatio(d) == d.aspect.v * d.length.v = d.width.v * Scale

\* C26 as stated: for every model of the variable-size type 'custom' aspect
\* equals width / length.
C26_AspectIsWidthOverLength ==
    (SupportedModel /\ call.pitch_type \in size_varies) => AspectIsRatio(result.dim)

\* C26, amended: for every model of 'custom', as for the fixed-size 'ikf',
\* aspect is 1, set independently of width and length; it equals
\* width / length only when width = length.
C26_AspectIsOne ==
    SupportedModel =>
        /\ result.dim.aspect = Num(Scale)
        /\ AspectIsRatio(result.dim) <=> result.dim.width = result.dim.length

C26_Witness ==
    /\ SupportedModel
    /\ call.pitch_type = "custom"
    /\ call.pitch_width = Num(Step)
    /\ call.pitch_length = Num(3 * Step)
    /\ result.dim.aspect = Num(Scale)
    /\ ~AspectIsRatio(result.dim)

\* The three concrete Dimension Model classes, and names to select them by:
\* the supported types, the name the centered class documents, and others.
Variants == {"FixedDimsKorfball", "VariableCenterDimsKorfball", "CustomDimsKorfball"}
TypeNames == PitchTypes \cup {"centered"}

\* C27: each of the three concrete variants is selectable by pitch-type
\* name: for each there is a pitch_type for which create_pitch_dims returns
\* a model of that variant.
C27_EveryVariantSelectable ==
    Returned("create_pitch_dims") =>
        \A variant \in Variants :
            \E pt \in TypeNames, w \in Sizes, l \in Sizes, pd \in PostDistances :
                create_pitch_dims(pt, w, l, pd).dim.cls = variant

\* C28: for every model returned for 'ikf' or 'custom' the boundary fields
\* agree: right - left = length = pitch_length, top - bottom = width =
\* pitch_width, center_length = (left + right) / 2 and center_width =
\* (bottom + top) / 2.
C28_BoundaryConsistent ==
    (Returned("create_pitch_dims") /\ call.pitch_type \in valid
     /\ result.status = "ok") =>
        LET d == result.dim
        IN /\ Sub(d.right, d.left) = d.length
           /\ d.length = d.pitch_length
           /\ Sub(d.top, d.bottom) = d.width
           /\ d.width = d.pitch_width
           /\ IsNum(d.center_length) /\ IsNum(d.center_width)
           /\ 2 * d.center_length.v = d.left.v + d.right.v
           /\ 2 * d.center_width.v = d.bottom.v + d.top.v

C28_Witness ==
    /\ Returned("create_pitch_dims")
    /\ call.pitch_type = "custom"
    /\ result.status = "ok"
    /\ result.dim.right = Num(3 * Step)
    /\ result.dim.top = Num(Step)
    /\ result.dim.center_length = Num(15 * Scale)
    /\ result.dim.center_width = Num(5 * Scale)

\* C29: bin_statistic checks its arguments in a fixed order before any
\* binning: when x and y differ in length and values is also missing for a
\* statistic other than 'count', the size error is the one reported; the
\* missing-values error is reported only when the lengths match.
C29_SizeCheckedBeforeValues ==
    Returned("bin_statistic") =>
        /\ (size_mismatch(call.x, call.y)
            /\ values_missing(call.values, call.statistic)) =>
               (stats = DimensionMismatch /\ NoResultReturned)
        /\ stats = MissingValues =>
               (~size_mismatch(call.x, call.y)
                /\ values_missing(call.values, call.statistic)
                /\ NoResultReturned)

C29_Witness ==
    /\ Returned("bin_statistic")
    /\ Len(call.x) = 2
    /\ Len(call.y) = 1
    /\ ~call.values.given
    /\ call.statistic = "sum"
    /\ call.dim = ikf_dims.dim
    /\ stats = DimensionMismatch

\* C30: for every supported pitch type whose Dimension Model has aspect 1,
\* pitch construction validates, builds the Dimension Model, sets the
\* extent, validates the (default) padding and completes the circle/arc
\* initialisation without error, leaving diameter1 = 2 * twofifty_length,
\* diameter2 = 2 * twofifty_width, arc1_theta1 = arc, arc1_theta2 = -arc,
\* arc2_theta1 = 180 + arc and arc2_theta2 = 180 - arc.
C30_CirclesAndArcsInitialised ==
    (Returned("BasePitch") /\ SupportedCall /\ IsNone(call.pad_left)
     /\ pitch.dim # NoDim /\ pitch.dim.aspect = Num(Scale)) =>
        /\ pitch.status = "ok"
        /\ pitch.stage = "done"
        /\ pitch.diameter1 = Num(2 * pitch.dim.twofifty_length.v)
        /\ pitch.diameter2 = Num(2 * pitch.dim.twofifty_width.v)
        /\ pitch.arc1_theta1 = pitch.dim.arc
        /\ pitch.arc1_theta2 = Num(-pitch.dim.arc.v)
        /\ pitch.arc2_theta1 = Num(180 + pitch.dim.arc.v)
        /\ pitch.arc2_theta2 = Num(180 - pitch.dim.arc.v)

====
